---- MODULE Spec2Model ----
(***************************************************************************)
(* Model of pkg/service/runtime_provider/config_flags.go: the ConfigFlags  *)
(* client-config getter (persistent and non-persistent loader paths), the  *)
(* process-wide getter behind kubeConfig (sync.Once), getNamespace and     *)
(* NewActionConfig with its HELM_DRIVER storage-driver switch.             *)
(*                                                                         *)
(* Goroutines are the threads.  Every thread runs one call at a time;      *)
(* pc[t] is its position in the code, stk[t] the return positions of the   *)
(* calls it is inside of, call[t] its locals.                              *)
(*                                                                         *)
(* The specifications share the state and the actions:                     *)
(*   SpecFlags  NumCallers goroutines call ToRawKubeConfigLoader on two    *)
(*              ConfigFlags, one persistent and one not;                   *)
(*   Spec       NumThreads goroutines call kubeConfig, getNamespace and    *)
(*              NewActionConfig while HELM_DRIVER is set by the process;   *)
(*   SpecSeq    the same calls made one after the other by one goroutine,  *)
(*              MaxSeqCalls of them;                                       *)
(*   SpecFlagsFair  SpecFlags under a fair scheduler and a fair mutex;     *)
(*   SpecOverrides  one goroutine, loaders built between field updates;    *)
(*   SpecBind   one ConfigFlags is built, edited, bound to a flag set and  *)
(*              asked for its discovery client and REST mapper.            *)
(* The vendored Helm sources have a specification each:                    *)
(*   SpecCreate   chartutil.Create on a file system that can fail;         *)
(*   SpecHistory  getHistory of cmd/helm/history.go.                       *)
(***************************************************************************)
EXTENDS Integers, Sequences, FiniteSets, TLC

\* ---------------------------------------------------------------- bounds
NumThreads == 2
MaxCalls == 2
MaxSeqCalls == 3
NumCallers == 2
MaxLoaderCalls == 4
MaxEdits == 2
MaxHistLen == 3
MaxRevision == 4

Threads == 1..NumThreads
Callers == 1..NumCallers
Solo == {1}

\* ------------------------------------------------------------ value sets
\* credentialContent byte strings handed to kubeConfig / NewActionConfig
Creds == {"credA", "credB"}
\* what os.Getenv("HELM_DRIVER") can yield ("" is unset)
DriverValues == {"", "secret", "secrets", "configmap", "configmaps", "memory", "bogus"}
\* outcomes of clientcmd.ClientConfig.Namespace(): a namespace and an error
NsValues == {"", "prod"}
ErrValues == {"nil", "errA", "errB"}

NoNs == "<none>"
NoErr == "<none>"
NoDrv == "<none>"
NoCred == "<none>"

\* a Go pointer: <<>> is nil, <<v>> points to v
NilPtr == <<>>
Ptr(v) == <<v>>

defaultCacheDir == "<home>/.kube/http-cache"

\* the release store of an action.Configuration
NoStore == [kind |-> "none", scoped |-> FALSE, ns |-> NoNs]
NoResult == [returned |-> FALSE, RESTClientGetter |-> 0, Releases |-> NoStore]

VARIABLES
    proc,       \* "running", "fatal" (log.Fatal -> os.Exit) or "panic"
    env,        \* the value of the environment variable HELM_DRIVER
    flags,      \* the heap of ConfigFlags objects, a sequence; 0 is nil
    loaders,    \* the heap of clientcmd.ClientConfig loaders built so far
    once,       \* configOnce: "uninit", "initializing", "initialized"
    config,     \* the package variable config (0 is nil)
    pc, stk, call,
    started,    \* number of calls started so far
    inits,      \* number of runs of the function handed to configOnce.Do
    winner,     \* the credentialContent of the call whose Do ran the function
    kcRets,     \* the getters returned by kubeConfig so far
    rets,       \* per ConfigFlags object, the loaders ToRawKubeConfigLoader returned
    configs,    \* per configuration returned so far: HELM_DRIVER as read, driver kind
    bind,       \* one ConfigFlags being set up: its flag set, discovery client, mapper
    chart,      \* chartutil.Create: the file system and the position of one call
    history     \* helm history: the release history, --max, and what getHistory printed

coreVars == <<proc, env, flags, loaders, once, config, pc, stk, call,
              started, inits, winner, kcRets, rets, configs>>
extVars == <<bind, chart, history>>
vars == <<coreVars, extVars>>

\* ------------------------------------------------------- pure functions

\* NewConfigFlags with the Timeout default left out of the literal
NewConfigFlagsNoTimeout(usePersistentConfig, credentialContent) ==
    [ Insecure |-> Ptr(FALSE), Timeout |-> NilPtr, KubeConfig |-> Ptr(""),
      CacheDir |-> Ptr(defaultCacheDir), ClusterName |-> Ptr(""),
      AuthInfoName |-> Ptr(""), Context |-> Ptr(""), Namespace |-> Ptr(""),
      APIServer |-> Ptr(""), CertFile |-> Ptr(""), KeyFile |-> Ptr(""),
      CAFile |-> Ptr(""), BearerToken |-> Ptr(""), Impersonate |-> Ptr(""),
      ImpersonateGroup |-> Ptr(<<>>), Username |-> NilPtr, Password |-> NilPtr,
      clientConfig |-> 0, lock |-> 0,
      usePersistentConfig |-> usePersistentConfig,
      CredentialContent |-> credentialContent ]

\* NewConfigFlags (config_flags.go:246-271); lock and clientConfig are the
\* zero values of the struct literal.
NewConfigFlags(usePersistentConfig, credentialContent) ==
    [ Insecure |-> Ptr(FALSE),
      Timeout |-> Ptr("0"),
      KubeConfig |-> Ptr(""),
      CacheDir |-> Ptr(defaultCacheDir),
      ClusterName |-> Ptr(""),
      AuthInfoName |-> Ptr(""),
      Context |-> Ptr(""),
      Namespace |-> Ptr(""),
      APIServer |-> Ptr(""),
      CertFile |-> Ptr(""),
      KeyFile |-> Ptr(""),
      CAFile |-> Ptr(""),
      BearerToken |-> Ptr(""),
      Impersonate |-> Ptr(""),
      ImpersonateGroup |-> Ptr(<<>>),
      Username |-> NilPtr,
      Password |-> NilPtr,
      clientConfig |-> 0,
      lock |-> 0,
      usePersistentConfig |-> usePersistentConfig,
      CredentialContent |-> credentialContent ]

\* a loader built from the receiver's credential bytes
NewLoaderFromCredential(f) == [bytes |-> <<flags[f].CredentialContent>>, owner |-> f]

\* toRawKubeConfigLoader (120-133): the loader is built from empty bytes;
\* owner records the receiver the call was made on.
NewLoader(f) == [bytes |-> <<>>, owner |-> f]

\* &ConfigFlags{} (line 68): every field holds its zero value
ZeroConfigFlags ==
    [ Insecure |-> NilPtr, Timeout |-> NilPtr, KubeConfig |-> NilPtr,
      CacheDir |-> NilPtr, ClusterName |-> NilPtr, AuthInfoName |-> NilPtr,
      Context |-> NilPtr, Namespace |-> NilPtr, APIServer |-> NilPtr,
      CertFile |-> NilPtr, KeyFile |-> NilPtr, CAFile |-> NilPtr,
      BearerToken |-> NilPtr, Impersonate |-> NilPtr, ImpersonateGroup |-> NilPtr,
      Username |-> NilPtr, Password |-> NilPtr,
      clientConfig |-> 0, lock |-> 0,
      usePersistentConfig |-> FALSE, CredentialContent |-> NoCred ]

\* the optional fields of ConfigFlags (73-91)
OptionalFields ==
    { "CacheDir", "KubeConfig", "ClusterName", "AuthInfoName", "Context",
      "Namespace", "APIServer", "Insecure", "CertFile", "KeyFile", "CAFile",
      "BearerToken", "Impersonate", "ImpersonateGroup", "Username", "Password",
      "Timeout" }

\* values a program assigns to an optional field
FieldValues(fld) ==
    CASE fld = "Insecure" -> {NilPtr, Ptr(FALSE), Ptr(TRUE)}
      [] fld = "ImpersonateGroup" -> {NilPtr, Ptr(<< >>), Ptr(<<"g">>)}
      [] fld = "CacheDir" -> {NilPtr, Ptr(defaultCacheDir), Ptr("x")}
      [] OTHER -> {NilPtr, Ptr(""), Ptr("x")}

\* the override fields SpecOverrides assigns
OverrideFields == {"KubeConfig", "Context", "Namespace", "APIServer", "BearerToken"}

\* the result of ToDiscoveryClient / ToRESTMapper; client 0 is nil
NoDiscovery == [called |-> FALSE, client |-> 0, err |-> NoErr]
NoMapper == [called |-> FALSE, built |-> FALSE, discovery |-> 0, err |-> NoErr]
NoMade == [called |-> FALSE, usePersistentConfig |-> FALSE,
           credentialContent |-> NoCred, value |-> ZeroConfigFlags]

BlankBind ==
    [ obj |-> 0, edits |-> 0, made |-> NoMade, bound |-> FALSE, flagset |-> << >>,
      discovery |-> NoDiscovery, mapper |-> NoMapper ]

\* no call of chartutil.Create under way, nothing on disk
BlankChart ==
    [ pc |-> "none", base |-> "missing", cdir |-> "missing", tdir |-> "missing",
      fs |-> {}, i |-> 0, written |-> {}, err |-> NoErr, ret |-> "" ]

\* no call of getHistory under way
BlankHistory ==
    [ pc |-> "none", hist |-> << >>, runErr |-> "nil", max |-> 0, format |-> "table",
      rels |-> << >>, out |-> << >>, err |-> NoErr ]

BlankCall ==
    [ op |-> "none", f |-> 0, allNs |-> FALSE, cred |-> NoCred, getter |-> 0,
      loader |-> 0, csErr |-> NoErr, lns |-> NoNs, lerr |-> NoErr,
      ns |-> NoNs, drv |-> NoDrv, store |-> NoStore, result |-> NoResult ]


\* getNamespace with the error check dropped: the loader's namespace always
getNamespaceIgnoringErr(ns, err) == ns

\* getNamespace (296-301), the decision on the loader's answer
getNamespaceResult(ns, err) ==
    IF err = "nil" THEN ns ELSE "default"

\* the switch with a default branch that falls back to the Secrets driver
SelectStoreFallback(drv, namespace) ==
    CASE drv \in {"configmap", "configmaps"} ->
           [kind |-> "configmaps", scoped |-> TRUE, ns |-> namespace]
      [] drv = "memory" ->
           [kind |-> "memory", scoped |-> FALSE, ns |-> NoNs]
      [] OTHER ->
           [kind |-> "secrets", scoped |-> TRUE, ns |-> namespace]

\* the switch with "configmap" listed in the Secrets case
SelectStoreConfigMapAsSecret(drv, namespace) ==
    CASE drv \in {"secret", "secrets", "", "configmap"} ->
           [kind |-> "secrets", scoped |-> TRUE, ns |-> namespace]
      [] drv = "configmaps" ->
           [kind |-> "configmaps", scoped |-> TRUE, ns |-> namespace]
      [] drv = "memory" ->
           [kind |-> "memory", scoped |-> FALSE, ns |-> NoNs]
      [] OTHER ->
           [kind |-> "panic", scoped |-> FALSE, ns |-> NoNs]

\* the switch with a memory driver that is handed the namespace
SelectStoreMemoryScoped(drv, namespace) ==
    CASE drv \in {"secret", "secrets", ""} ->
           [kind |-> "secrets", scoped |-> TRUE, ns |-> namespace]
      [] drv \in {"configmap", "configmaps"} ->
           [kind |-> "configmaps", scoped |-> TRUE, ns |-> namespace]
      [] drv = "memory" ->
           [kind |-> "memory", scoped |-> TRUE, ns |-> namespace]
      [] OTHER ->
           [kind |-> "panic", scoped |-> FALSE, ns |-> NoNs]

\* the switch with the driver chosen by the first call kept for the process
SelectStoreSticky(drv, namespace) ==
    CASE drv \in {"secret", "secrets", ""} ->
           [kind |-> "secrets", scoped |-> TRUE, ns |-> namespace]
      [] drv \in {"configmap", "configmaps"} ->
           [kind |-> IF configs = {} THEN "configmaps" ELSE (CHOOSE c \in configs : TRUE).kind,
            scoped |-> TRUE, ns |-> namespace]
      [] drv = "memory" ->
           [kind |-> IF configs = {} THEN "memory" ELSE (CHOOSE c \in configs : TRUE).kind,
            scoped |-> FALSE, ns |-> NoNs]
      [] OTHER ->
           [kind |-> "panic", scoped |-> FALSE, ns |-> NoNs]

\* the switch on os.Getenv("HELM_DRIVER") in NewActionConfig (317-333);
\* kind "panic" is the default branch
SelectStore(drv, namespace) ==
    CASE drv \in {"secret", "secrets", ""} ->
           [kind |-> "secrets", scoped |-> TRUE, ns |-> namespace]
      [] drv \in {"configmap", "configmaps"} ->
           [kind |-> "configmaps", scoped |-> TRUE, ns |-> namespace]
      [] drv = "memory" ->
           [kind |-> "memory", scoped |-> FALSE, ns |-> NoNs]
      [] OTHER ->
           [kind |-> "panic", scoped |-> FALSE, ns |-> NoNs]

\* ------------------------------------------------------------------ Init
\* Two ConfigFlags built by the embedding program with NewConfigFlags: object 1
\* with usePersistentConfig = true, object 2 with usePersistentConfig = false.
\* The package variables config and configOnce hold their zero values.
InitOf(T) ==
    /\ proc = "running"
    /\ env = ""
    /\ flags = << NewConfigFlags(TRUE, "credA"), NewConfigFlags(FALSE, "credB") >>
    /\ loaders = << >>
    /\ once = "uninit"
    /\ config = 0
    /\ pc = [t \in T |-> "idle"]
    /\ stk = [t \in T |-> << >>]
    /\ call = [t \in T |-> BlankCall]
    /\ started = 0
    /\ inits = 0
    /\ winner = NoCred
    /\ kcRets = {}
    /\ rets = << << >>, << >> >>
    /\ configs = {}

\* the state outside the calls a specification makes
ExtBlank == bind = BlankBind /\ chart = BlankChart /\ history = BlankHistory

Init == InitOf(Threads) /\ ExtBlank
InitFlags == InitOf(Callers) /\ ExtBlank
InitSeq == InitOf(Solo) /\ ExtBlank

\* ------------------------------------------------------------- plumbing
Running(t, at) == proc = "running" /\ pc[t] = at

CanStart(t, max) == Running(t, "idle") /\ started < max

\* the number of calls the goroutines of a specification make
CallBudget == IF DOMAIN pc = Solo THEN MaxSeqCalls ELSE MaxCalls

\* enter a call: jump to `to`, come back at `back`
Enter(t, to, back) ==
    /\ pc' = [pc EXCEPT ![t] = to]
    /\ stk' = [stk EXCEPT ![t] = <<back>> \o @]

\* return from a call
Leave(t) ==
    /\ pc' = [pc EXCEPT ![t] = Head(stk[t])]
    /\ stk' = [stk EXCEPT ![t] = Tail(@)]

Goto(t, to) ==
    /\ pc' = [pc EXCEPT ![t] = to]
    /\ UNCHANGED stk

\* ------------------------------------------------- the embedding program
\* os.Setenv("HELM_DRIVER", v) by the embedding process or its tests.  The
\* variable is read at line 318 only, so a change is taken while a call of
\* NewActionConfig is on its way to that line: every sequence of values the
\* reads can see is kept.
Setenv(v) ==
    /\ proc = "running"
    /\ env # v
    /\ \E t \in DOMAIN pc : call[t].op = "NewActionConfig" /\ call[t].drv = NoDrv
    /\ env' = v
    /\ UNCHANGED extVars
    /\ UNCHANGED <<proc, flags, loaders, once, config, pc, stk, call,
                   started, inits, winner, kcRets, rets, configs>>

CallToRawKubeConfigLoader(t, f) ==
    /\ CanStart(t, MaxLoaderCalls)
    /\ f \in DOMAIN flags
    /\ started' = started + 1
    /\ call' = [call EXCEPT ![t] = [BlankCall EXCEPT !.op = "ToRawKubeConfigLoader", !.f = f]]
    /\ Enter(t, "ToRawKubeConfigLoader", "ret")
    /\ UNCHANGED extVars
    /\ UNCHANGED <<proc, env, flags, loaders, once, config,
                   inits, winner, kcRets, rets, configs>>

CallKubeConfig(t, cred) ==
    /\ CanStart(t, CallBudget)
    /\ started' = started + 1
    /\ call' = [call EXCEPT ![t] = [BlankCall EXCEPT !.op = "kubeConfig", !.cred = cred]]
    /\ Enter(t, "kubeConfig", "ret")
    /\ UNCHANGED extVars
    /\ UNCHANGED <<proc, env, flags, loaders, once, config,
                   inits, winner, kcRets, rets, configs>>

CallGetNamespace(t, cred) ==
    /\ CanStart(t, CallBudget)
    /\ started' = started + 1
    /\ call' = [call EXCEPT ![t] = [BlankCall EXCEPT !.op = "getNamespace", !.cred = cred]]
    /\ Enter(t, "getNamespace", "ret")
    /\ UNCHANGED extVars
    /\ UNCHANGED <<proc, env, flags, loaders, once, config,
                   inits, winner, kcRets, rets, configs>>

CallNewActionConfig(t, allNamespaces, cred) ==
    /\ CanStart(t, CallBudget)
    /\ started' = started + 1
    /\ call' = [call EXCEPT ![t] = [BlankCall EXCEPT !.op = "NewActionConfig",
                                       !.allNs = allNamespaces, !.cred = cred]]
    /\ Enter(t, "kubeConfig", "nac_clientset")
    /\ UNCHANGED extVars
    /\ UNCHANGED <<proc, env, flags, loaders, once, config,
                   inits, winner, kcRets, rets, configs>>

\* the caller takes the result; the thread is free for its next call
Finish(t) ==
    /\ Running(t, "ret")
    /\ call' = [call EXCEPT ![t] = BlankCall]
    /\ Goto(t, "idle")
    /\ UNCHANGED extVars
    /\ UNCHANGED <<proc, env, flags, loaders, once, config,
                   started, inits, winner, kcRets, rets, configs>>


\* ------------------------------------- ConfigFlags.ToRawKubeConfigLoader
\* 113-118: the receiver is call[t].f
ToRawKubeConfigLoader(t) ==
    /\ Running(t, "ToRawKubeConfigLoader")
    /\ IF flags[call[t].f].usePersistentConfig
          THEN Goto(t, "p_lock")
          ELSE Goto(t, "np_build")
    /\ UNCHANGED extVars
    /\ UNCHANGED <<proc, env, flags, loaders, once, config, call,
                   started, inits, winner, kcRets, rets, configs>>

\* 120-133 reached from 117: a fresh loader on every call
toRawKubeConfigLoader(t) ==
    /\ Running(t, "np_build")
    /\ loaders' = Append(loaders, NewLoader(call[t].f))
    /\ call' = [call EXCEPT ![t].loader = Len(loaders')]
    /\ rets' = [rets EXCEPT ![call[t].f] = Append(@, Len(loaders'))]
    /\ Leave(t)
    /\ UNCHANGED extVars
    /\ UNCHANGED <<proc, env, flags, once, config,
                   started, inits, winner, kcRets, configs>>

\* a Lock() that never waits
LockNeverWaits(f) == TRUE

\* f.lock.Lock() can proceed (sync.Mutex)
LockFree(f) == flags[f].lock = 0

\* 138: f.lock.Lock()
Lock(t) ==
    /\ Running(t, "p_lock")
    /\ LockFree(call[t].f)
    /\ flags' = [flags EXCEPT ![call[t].f].lock = t]
    /\ Goto(t, "p_check")
    /\ UNCHANGED extVars
    /\ UNCHANGED <<proc, env, loaders, once, config, call,
                   started, inits, winner, kcRets, rets, configs>>

\* the nil check dropped: the loader is rebuilt on every call
NeedsBuildAlways(f) == TRUE

\* 141: f.clientConfig == nil
NeedsBuild(f) == flags[f].clientConfig = 0

\* 141: if f.clientConfig == nil
CheckClientConfig(t) ==
    /\ Running(t, "p_check")
    /\ IF NeedsBuild(call[t].f)
          THEN Goto(t, "p_build")
          ELSE Goto(t, "p_return")
    /\ UNCHANGED extVars
    /\ UNCHANGED <<proc, env, flags, loaders, once, config, call,
                   started, inits, winner, kcRets, rets, configs>>

\* 142: f.clientConfig = f.toRawKubeConfigLoader()
BuildClientConfig(t) ==
    /\ Running(t, "p_build")
    /\ loaders' = Append(loaders, NewLoader(call[t].f))
    /\ flags' = [flags EXCEPT ![call[t].f].clientConfig = Len(loaders')]
    /\ Goto(t, "p_return")
    /\ UNCHANGED extVars
    /\ UNCHANGED <<proc, env, once, config, call,
                   started, inits, winner, kcRets, rets, configs>>

\* the return without the deferred Unlock
ReturnClientConfigLocked(t) ==
    /\ Running(t, "p_return")
    /\ call' = [call EXCEPT ![t].loader = flags[call[t].f].clientConfig]
    /\ rets' = [rets EXCEPT ![call[t].f] = Append(@, flags[call[t].f].clientConfig)]
    /\ Leave(t)
    /\ UNCHANGED extVars
    /\ UNCHANGED <<proc, env, flags, loaders, once, config,
                   started, inits, winner, kcRets, configs>>

\* 145 and the deferred f.lock.Unlock() of 139
ReturnClientConfig(t) ==
    /\ Running(t, "p_return")
    /\ call' = [call EXCEPT ![t].loader = flags[call[t].f].clientConfig]
    /\ rets' = [rets EXCEPT ![call[t].f] = Append(@, flags[call[t].f].clientConfig)]
    /\ flags' = [flags EXCEPT ![call[t].f].lock = IF @ = t THEN 0 ELSE @]
    /\ Leave(t)
    /\ UNCHANGED extVars
    /\ UNCHANGED <<proc, env, loaders, once, config,
                   started, inits, winner, kcRets, configs>>

\* ------------------------------------------------------------ kubeConfig
\* a guard that runs its function again once the first run is over
OnceFiresAgain(o) == o # "initializing"

\* sync.Once.Do runs its function when no call of Do has run it yet
OnceFires(o) == o = "uninit"

\* 289-294: configOnce.Do(...); a caller that finds another one inside the
\* function waits for it (sync.Once)
kubeConfig(t) ==
    /\ Running(t, "kubeConfig")
    /\ \/ /\ OnceFires(once)
          /\ once' = "initializing"
          /\ Goto(t, "once_f")
          /\ UNCHANGED <<call, kcRets>>
       \/ /\ ~OnceFires(once)
          /\ once = "initialized"
          /\ call' = [call EXCEPT ![t].getter = config]
          /\ kcRets' = kcRets \cup {config}
          /\ Leave(t)
          /\ UNCHANGED once
    /\ UNCHANGED extVars
    /\ UNCHANGED <<proc, env, flags, loaders, config,
                   started, inits, winner, rets, configs>>

\* the function of configOnce.Do building a persistent getter
onceFuncPersistent(t) ==
    /\ Running(t, "once_f")
    /\ flags' = Append(flags, NewConfigFlags(TRUE, call[t].cred))
    /\ rets' = Append(rets, << >>)
    /\ config' = Len(flags')
    /\ once' = "initialized"
    /\ inits' = inits + 1
    /\ winner' = call[t].cred
    /\ call' = [call EXCEPT ![t].getter = config']
    /\ kcRets' = kcRets \cup {config'}
    /\ Leave(t)
    /\ UNCHANGED extVars
    /\ UNCHANGED <<proc, env, loaders, started, configs>>

\* 290-293: config = NewConfigFlags(false, credentialContent), then return config
onceFunc(t) ==
    /\ Running(t, "once_f")
    /\ flags' = Append(flags, NewConfigFlags(FALSE, call[t].cred))
    /\ rets' = Append(rets, << >>)
    /\ config' = Len(flags')
    /\ once' = "initialized"
    /\ inits' = inits + 1
    /\ winner' = call[t].cred
    /\ call' = [call EXCEPT ![t].getter = config']
    /\ kcRets' = kcRets \cup {config'}
    /\ Leave(t)
    /\ UNCHANGED extVars
    /\ UNCHANGED <<proc, env, loaders, started, configs>>

\* ---------------------------------------------------------- getNamespace
\* 297: kubeConfig(credentialContent)
getNamespace(t) ==
    /\ Running(t, "getNamespace")
    /\ Enter(t, "kubeConfig", "gn_loader")
    /\ UNCHANGED extVars
    /\ UNCHANGED <<proc, env, flags, loaders, once, config, call,
                   started, inits, winner, kcRets, rets, configs>>

\* 297: .ToRawKubeConfigLoader() on the getter
getNamespaceLoader(t) ==
    /\ Running(t, "gn_loader")
    /\ call' = [call EXCEPT ![t].f = call[t].getter]
    /\ Enter(t, "ToRawKubeConfigLoader", "gn_namespace")
    /\ UNCHANGED extVars
    /\ UNCHANGED <<proc, env, flags, loaders, once, config,
                   started, inits, winner, kcRets, rets, configs>>

\* 297-300: .Namespace() answers (ns, _, err), any namespace and any error
getNamespaceReturn(t) ==
    /\ Running(t, "gn_namespace")
    /\ \E ns \in NsValues, err \in ErrValues :
          call' = [call EXCEPT ![t].lns = ns, ![t].lerr = err, ![t].loader = 0,
                               ![t].ns = getNamespaceResult(ns, err)]
    /\ Leave(t)
    /\ UNCHANGED extVars
    /\ UNCHANGED <<proc, env, flags, loaders, once, config,
                   started, inits, winner, kcRets, rets, configs>>

\* ------------------------------------------------------- NewActionConfig
\* 304-307: kube.New(getter).KubernetesClientSet() asks the getter for its
\* REST config: ToRESTConfig (106-108) calls ToRawKubeConfigLoader
KubernetesClientSet(t) ==
    /\ Running(t, "nac_clientset")
    /\ call' = [call EXCEPT ![t].f = call[t].getter]
    /\ Enter(t, "ToRawKubeConfigLoader", "nac_restconfig")
    /\ UNCHANGED extVars
    /\ UNCHANGED <<proc, env, flags, loaders, once, config,
                   started, inits, winner, kcRets, rets, configs>>

\* the error of the client set ignored
ClientSetNeverFailed(err) == FALSE

\* 308: if err != nil
ClientSetFailed(err) == err # "nil"

\* 107 and 307-311: ClientConfig() and the client set succeed or fail;
\* log.Fatal(err) exits the process
CheckClientSet(t) ==
    /\ Running(t, "nac_restconfig")
    /\ \E err \in ErrValues :
          /\ call' = [call EXCEPT ![t].csErr = err, ![t].loader = 0]
          /\ IF ClientSetFailed(err)
                THEN proc' = "fatal" /\ UNCHANGED <<pc, stk>>
                ELSE proc' = proc /\ Goto(t, "nac_namespace")
    /\ UNCHANGED extVars
    /\ UNCHANGED <<env, flags, loaders, once, config,
                   started, inits, winner, kcRets, rets, configs>>

\* the namespace resolved whatever allNamespaces says
ResolvesNamespaceAlways(allNamespaces) == TRUE

\* 313: if !allNamespaces
ResolvesNamespace(allNamespaces) == ~allNamespaces

\* 312-315: var namespace string; if !allNamespaces { namespace = getNamespace(...) }
WorkingNamespace(t) ==
    /\ Running(t, "nac_namespace")
    /\ IF ResolvesNamespace(call[t].allNs)
          THEN /\ Enter(t, "getNamespace", "nac_driver")
               /\ UNCHANGED call
          ELSE /\ call' = [call EXCEPT ![t].ns = ""]
               /\ Goto(t, "nac_driver")
    /\ UNCHANGED extVars
    /\ UNCHANGED <<proc, env, flags, loaders, once, config,
                   started, inits, winner, kcRets, rets, configs>>

\* 317-333: the switch on os.Getenv("HELM_DRIVER"); the default branch panics
SelectDriver(t) ==
    /\ Running(t, "nac_driver")
    /\ LET s == SelectStore(env, call[t].ns) IN
          IF s.kind = "panic"
             THEN /\ proc' = "panic"
                  /\ call' = [call EXCEPT ![t].drv = env]
                  /\ UNCHANGED <<pc, stk>>
             ELSE /\ proc' = proc
                  /\ call' = [call EXCEPT ![t].drv = env, ![t].store = s]
                  /\ Enter(t, "kubeConfig", "nac_return")
    /\ UNCHANGED extVars
    /\ UNCHANGED <<env, flags, loaders, once, config,
                   started, inits, winner, kcRets, rets, configs>>

\* 335-340: return &action.Configuration{RESTClientGetter: kubeConfig(...), Releases: store}
ReturnConfiguration(t) ==
    /\ Running(t, "nac_return")
    /\ call' = [call EXCEPT ![t].result =
                   [returned |-> TRUE, RESTClientGetter |-> call[t].getter,
                    Releases |-> call[t].store]]
    /\ configs' = configs \cup {[drv |-> call[t].drv, kind |-> call[t].store.kind]}
    /\ Goto(t, "ret")
    /\ UNCHANGED extVars
    /\ UNCHANGED <<proc, env, flags, loaders, once, config,
                   started, inits, winner, kcRets, rets>>

\* ------------------------------------------------------------------ Next
LoaderSteps(t) ==
    \/ ToRawKubeConfigLoader(t)
    \/ toRawKubeConfigLoader(t)

PersistentLoaderSteps(t) ==
    \/ Lock(t)
    \/ CheckClientConfig(t)
    \/ BuildClientConfig(t)
    \/ ReturnClientConfig(t)

NextFlags ==
    \E t \in Callers :
       \/ \E f \in 1..(Len(flags)) : CallToRawKubeConfigLoader(t, f)
       \/ LoaderSteps(t)
       \/ PersistentLoaderSteps(t)
       \/ Finish(t)

NextOf(T) ==
    \/ \E v \in DriverValues : Setenv(v)
    \/ \E t \in T :
          \/ \E c \in Creds : CallKubeConfig(t, c)
          \/ \E c \in Creds : CallGetNamespace(t, c)
          \/ \E a \in BOOLEAN, c \in Creds : CallNewActionConfig(t, a, c)
          \/ LoaderSteps(t)
          \/ kubeConfig(t)
          \/ onceFunc(t)
          \/ getNamespace(t)
          \/ getNamespaceLoader(t)
          \/ getNamespaceReturn(t)
          \/ KubernetesClientSet(t)
          \/ CheckClientSet(t)
          \/ WorkingNamespace(t)
          \/ SelectDriver(t)
          \/ ReturnConfiguration(t)
          \/ Finish(t)

Next == NextOf(Threads)
NextSeq == NextOf(Solo)

Spec == Init /\ [][Next]_vars
SpecSeq == InitSeq /\ [][NextSeq]_vars
SpecFlags == InitFlags /\ [][NextFlags]_vars

\* ------------------------------------------- one ConfigFlags being set up
\* f := NewConfigFlags(usePersistentConfig, credentialContent) (246-271)
Construct(p, c) ==
    /\ bind.obj = 0
    /\ flags' = Append(flags, NewConfigFlags(p, c))
    /\ rets' = Append(rets, << >>)
    /\ bind' = [bind EXCEPT !.obj = Len(flags'),
                            !.made = [called |-> TRUE, usePersistentConfig |-> p,
                                      credentialContent |-> c,
                                      value |-> NewConfigFlags(p, c)]]
    /\ UNCHANGED <<proc, env, loaders, once, config, pc, stk, call,
                   started, inits, winner, kcRets, configs, chart, history>>

\* f := &ConfigFlags{} (68)
ConstructZero ==
    /\ bind.obj = 0
    /\ flags' = Append(flags, ZeroConfigFlags)
    /\ rets' = Append(rets, << >>)
    /\ bind' = [bind EXCEPT !.obj = Len(flags')]
    /\ UNCHANGED <<proc, env, loaders, once, config, pc, stk, call,
                   started, inits, winner, kcRets, configs, chart, history>>

\* an assignment to an exported optional field (73-91) before the flags are
\* bound: f.Field = nil, or f.Field = &v
SetField(f, fld, p) ==
    /\ f \in 1..Len(flags)
    /\ bind.edits < MaxEdits
    /\ ~bind.bound
    /\ flags[f][fld] # p
    /\ flags' = [flags EXCEPT ![f][fld] = p]
    /\ bind' = [bind EXCEPT !.edits = @ + 1]
    /\ UNCHANGED <<proc, env, loaders, once, config, pc, stk, call,
                   started, inits, winner, kcRets, rets, configs, chart, history>>

\* pflag's Flag.DefValue is the String() of the value handed to StringVar,
\* BoolVar or StringArrayVar
FormatDefault(fld, v) ==
    CASE fld = "Insecure" -> IF v THEN "true" ELSE "false"
      [] fld = "ImpersonateGroup" -> IF v = << >> THEN "[]" ELSE "[g]"
      [] OTHER -> v

\* one `if f.X != nil { flags.StringVar(f.X, name, *f.X, usage) }` of AddFlags
Register(o, fld, name, shorthand) ==
    IF o[fld] # NilPtr
       THEN << [name |-> name, shorthand |-> shorthand, field |-> fld,
                def |-> FormatDefault(fld, o[fld][1])] >>
       ELSE << >>

\* AddFlags with the username flag registered under the name of the user flag
AddFlagsUserTwice(o) ==
       Register(o, "KubeConfig", "kubeconfig", "")
    \o Register(o, "CacheDir", "cache-dir", "")
    \o Register(o, "CertFile", "client-certificate", "")
    \o Register(o, "KeyFile", "client-key", "")
    \o Register(o, "BearerToken", "token", "")
    \o Register(o, "Impersonate", "as", "")
    \o Register(o, "ImpersonateGroup", "as-group", "")
    \o Register(o, "Username", "user", "")
    \o Register(o, "Password", "password", "")
    \o Register(o, "ClusterName", "cluster", "")
    \o Register(o, "AuthInfoName", "user", "")
    \o Register(o, "Namespace", "namespace", "n")
    \o Register(o, "Context", "context", "")
    \o Register(o, "APIServer", "server", "s")
    \o Register(o, "Insecure", "insecure-skip-tls-verify", "")
    \o Register(o, "CAFile", "certificate-authority", "")
    \o Register(o, "Timeout", "request-timeout", "")

\* ConfigFlags.AddFlags (187-243): the flags registered on an empty flag set
AddFlags(o) ==
       Register(o, "KubeConfig", "kubeconfig", "")
    \o Register(o, "CacheDir", "cache-dir", "")
    \o Register(o, "CertFile", "client-certificate", "")
    \o Register(o, "KeyFile", "client-key", "")
    \o Register(o, "BearerToken", "token", "")
    \o Register(o, "Impersonate", "as", "")
    \o Register(o, "ImpersonateGroup", "as-group", "")
    \o Register(o, "Username", "username", "")
    \o Register(o, "Password", "password", "")
    \o Register(o, "ClusterName", "cluster", "")
    \o Register(o, "AuthInfoName", "user", "")
    \o Register(o, "Namespace", "namespace", "n")
    \o Register(o, "Context", "context", "")
    \o Register(o, "APIServer", "server", "s")
    \o Register(o, "Insecure", "insecure-skip-tls-verify", "")
    \o Register(o, "CAFile", "certificate-authority", "")
    \o Register(o, "Timeout", "request-timeout", "")

\* f.AddFlags(flags) on a new pflag.FlagSet
CallAddFlags ==
    /\ bind.obj # 0
    /\ ~bind.bound
    /\ bind' = [bind EXCEPT !.bound = TRUE, !.flagset = AddFlags(flags[bind.obj])]
    /\ UNCHANGED <<coreVars, chart, history>>

\* ConfigFlags.ToDiscoveryClient (151-172): the body is commented out but for
\* `return nil, nil`
ToDiscoveryClient(o) == [client |-> 0, err |-> "nil"]

\* ConfigFlags.ToRESTMapper (175-184); discovery is the client the mapper and
\* the shortcut expander are built over
ToRESTMapper(o) ==
    LET d == ToDiscoveryClient(o) IN
    IF d.err # "nil"
       THEN [built |-> FALSE, discovery |-> 0, err |-> d.err]
       ELSE [built |-> TRUE, discovery |-> d.client, err |-> "nil"]

CallToDiscoveryClient ==
    /\ bind.obj # 0
    /\ ~bind.discovery.called
    /\ LET d == ToDiscoveryClient(flags[bind.obj]) IN
          bind' = [bind EXCEPT !.discovery =
                      [called |-> TRUE, client |-> d.client, err |-> d.err]]
    /\ UNCHANGED <<coreVars, chart, history>>

CallToRESTMapper ==
    /\ bind.obj # 0
    /\ ~bind.mapper.called
    /\ LET m == ToRESTMapper(flags[bind.obj]) IN
          bind' = [bind EXCEPT !.mapper =
                      [called |-> TRUE, built |-> m.built,
                       discovery |-> m.discovery, err |-> m.err]]
    /\ UNCHANGED <<coreVars, chart, history>>

NextBind ==
    \/ \E p \in BOOLEAN, c \in Creds : Construct(p, c)
    \/ ConstructZero
    \/ \E fld \in OptionalFields : \E p \in FieldValues(fld) :
          bind.obj # 0 /\ SetField(bind.obj, fld, p)
    \/ CallAddFlags
    \/ CallToDiscoveryClient
    \/ CallToRESTMapper

SpecBind == InitSeq /\ [][NextBind]_vars

\* one goroutine that assigns override fields of the two ConfigFlags between
\* its ToRawKubeConfigLoader calls
NextOverrides ==
    \/ \E t \in Solo :
          \/ \E f \in 1..(Len(flags)) : CallToRawKubeConfigLoader(t, f)
          \/ LoaderSteps(t)
          \/ PersistentLoaderSteps(t)
          \/ Finish(t)
    \/ \E f \in 1..Len(flags), fld \in OverrideFields :
          SetField(f, fld, Ptr("x"))

SpecOverrides == InitSeq /\ [][NextOverrides]_vars

\* a fair scheduler runs every goroutine that can take a step, and the mutex
\* hands the lock to a goroutine that keeps asking for it (sync.Mutex
\* starvation mode)
FairFlags ==
    \A t \in Callers :
        /\ WF_vars(LoaderSteps(t))
        /\ SF_vars(Lock(t))
        /\ WF_vars(CheckClientConfig(t))
        /\ WF_vars(BuildClientConfig(t))
        /\ WF_vars(ReturnClientConfig(t))

SpecFlagsFair == InitFlags /\ [][NextFlags]_vars /\ FairFlags


\* ------------------------------------------------------ chartutil.Create
\* the files list of create.go:392-436, in its order, relative to cdir
Files ==
    << "Chart.yaml", "values.yaml", ".helmignore", "templates/ingress.yaml",
       "templates/deployment.yaml", "templates/service.yaml",
       "templates/NOTES.txt", "templates/_helpers.tpl" >>

FileNames == {Files[k] : k \in 1..Len(Files)}

\* filepath.Dir(name) of writeFile: cdir/templates or cdir itself
InTemplates(p) ==
    p \in {"templates/ingress.yaml", "templates/deployment.yaml",
           "templates/service.yaml", "templates/NOTES.txt", "templates/_helpers.tpl"}

\* what a path can be on disk
PathStates == {"missing", "file", "dir"}

\* the disks Create can be called on: cdir exists only inside a base
\* directory, templates only inside cdir, files only inside their directory
Disks ==
    { d \in [base : PathStates, cdir : PathStates, tdir : PathStates,
             fs : SUBSET FileNames] :
        /\ d.base # "dir" => d.cdir = "missing"
        /\ d.cdir # "dir" => (d.tdir = "missing" /\ d.fs = {})
        /\ d.tdir # "dir" => \A p \in d.fs : ~InTemplates(p) }

InitCreate ==
    /\ InitOf(Solo)
    /\ bind = BlankBind
    /\ history = BlankHistory
    /\ \E d \in Disks :
          chart = [BlankChart EXCEPT !.base = d.base, !.cdir = d.cdir,
                                     !.tdir = d.tdir, !.fs = d.fs]

\* the return statements of Create
CreateReturns(c, path, err) == [c EXCEPT !.pc = "done", !.ret = path, !.err = err]

\* 375-379: path, err := filepath.Abs(dir)
CallCreate(absOk) ==
    /\ chart.pc = "none"
    /\ chart' = IF absOk THEN [chart EXCEPT !.pc = "stat_path"]
                ELSE CreateReturns(chart, "path", "errAbs")
    /\ UNCHANGED <<coreVars, bind, history>>

\* 381-385: os.Stat(path) fails, or path is not a directory
StatPath ==
    /\ chart.pc = "stat_path"
    /\ chart' = CASE chart.base = "missing" -> CreateReturns(chart, "path", "errStat")
                  [] chart.base = "file" -> CreateReturns(chart, "path", "errNoSuchDirectory")
                  [] OTHER -> [chart EXCEPT !.pc = "stat_cdir"]
    /\ UNCHANGED <<coreVars, bind, history>>

\* 387-390: cdir exists and is not a directory; else the loop of 438 starts
StatCdir ==
    /\ chart.pc = "stat_cdir"
    /\ chart' = IF chart.cdir = "file"
                THEN CreateReturns(chart, "cdir", "errAlreadyExists")
                ELSE [chart EXCEPT !.pc = "loop", !.i = 1]
    /\ UNCHANGED <<coreVars, bind, history>>

\* what writeFile (456-461) can do: succeed, fail in os.MkdirAll, fail in
\* ioutil.WriteFile before the file is created or after
WriteOutcomes == {"ok", "errMkdirAll", "errOpen", "errWrite"}

\* the directory writeFile needs for p, as the disk has it
DirOf(c, p) == IF InTemplates(p) THEN c.tdir ELSE c.cdir

\* the disk after os.MkdirAll(filepath.Dir(name)) succeeded
MkdirAll(c, p) ==
    [c EXCEPT !.cdir = "dir", !.tdir = IF InTemplates(p) THEN "dir" ELSE @]

\* 439-442: the file exists and is skipped
SkipFile ==
    /\ chart.pc = "loop" /\ chart.i <= Len(Files)
    /\ Files[chart.i] \in chart.fs
    /\ chart' = [chart EXCEPT !.i = @ + 1]
    /\ UNCHANGED <<coreVars, bind, history>>

\* 443-445: writeFile(file.path, file.content); its error is returned as it is
WriteFile(o) ==
    /\ chart.pc = "loop" /\ chart.i <= Len(Files)
    /\ Files[chart.i] \notin chart.fs
    /\ LET p == Files[chart.i]
           made == MkdirAll(chart, p)
       IN  /\ o = "errMkdirAll" => DirOf(chart, p) # "dir"
           /\ o # "errMkdirAll" => DirOf(chart, p) # "file"
           /\ chart' =
                CASE o = "ok" ->
                       [made EXCEPT !.fs = @ \cup {p}, !.written = @ \cup {p},
                                    !.i = @ + 1]
                  [] o = "errMkdirAll" -> CreateReturns(chart, "cdir", o)
                  [] o = "errOpen" -> CreateReturns(made, "cdir", o)
                  [] OTHER ->
                       CreateReturns([made EXCEPT !.fs = @ \cup {p},
                                                  !.written = @ \cup {p}],
                                     "cdir", o)
    /\ UNCHANGED <<coreVars, bind, history>>

\* 447: return cdir, nil
CreateDone ==
    /\ chart.pc = "loop" /\ chart.i > Len(Files)
    /\ chart' = CreateReturns(chart, "cdir", "nil")
    /\ UNCHANGED <<coreVars, bind, history>>

NextCreate ==
    \/ \E absOk \in BOOLEAN : CallCreate(absOk)
    \/ StatPath
    \/ StatCdir
    \/ SkipFile
    \/ \E o \in WriteOutcomes : WriteFile(o)
    \/ CreateDone

SpecCreate == InitCreate /\ [][NextCreate]_vars

\* ------------------------------------------------------------ getHistory
\* the value of the --max flag when it is not given (history.go:70)
DefaultMax == 256

\* OutputFormat values action.ParseOutputFormat accepts
OutputFormats == {"table", "json", "yaml"}

Range(s) == {s[k] : k \in 1..Len(s)}

\* a history longer than the default maximum, not in order of revision
LongHistory == [k \in 1..(DefaultMax + 1) |-> ((k + 99) % (DefaultMax + 1)) + 1]

\* the histories client.Run can return: releases of one name, told apart by
\* their revision
Histories ==
    {h \in UNION {[1..n -> 1..MaxRevision] : n \in 0..MaxHistLen} :
        \A a, b \in 1..Len(h) : a # b => h[a] # h[b]}
    \cup {LongHistory}

MaxValues == (-1 .. (MaxHistLen + 1)) \cup {DefaultMax}

InitHistory ==
    /\ InitOf(Solo)
    /\ bind = BlankBind
    /\ chart = BlankChart
    /\ \E h \in Histories, m \in MaxValues, e \in {"nil", "errRun"},
          fmt \in OutputFormats \cup {"bogus"} :
          history = [BlankHistory EXCEPT !.hist = h, !.max = m, !.runErr = e,
                                         !.format = fmt]

\* min of the integers shaved down to no cap at all
minFirst(x, y) == x

\* min (179-184)
min(x, y) == IF x < y THEN x ELSE y

\* releaseutil.SortByRevision: ascending by Version
SortByRevision(list) == SortSeq(list, LAMBDA a, b : a < b)

\* releaseutil.Reverse(list, sortFn): sortFn(list), then the list end for end
Reverse(list) ==
    LET sorted == SortByRevision(list)
    IN  [k \in 1..Len(sorted) |-> sorted[Len(sorted) + 1 - k]]

\* 112-115: the first min(len(hist), client.Max) elements
Capped(hist, max) ==
    LET n == min(Len(hist), max)
    IN  IF n > 0 THEN SubSeq(hist, 1, n) ELSE << >>

\* getReleaseHistory (135-159): one entry per release, from the last to the first
getReleaseHistory(rls) == [k \in 1..Len(rls) |-> rls[Len(rls) + 1 - k]]

\* getHistory (104-133); the marshalled text is taken as its list of entries
getHistory ==
    /\ history.pc = "none"
    /\ LET rels == Capped(Reverse(history.hist), history.max)
       IN  history' =
             CASE history.runErr # "nil" ->
                    [history EXCEPT !.pc = "done", !.err = history.runErr]
               [] rels = << >> ->
                    [history EXCEPT !.pc = "done", !.err = "nil"]
               [] history.format \notin OutputFormats ->
                    [history EXCEPT !.pc = "done", !.rels = rels,
                                    !.err = "errInvalidFormatType"]
               [] OTHER ->
                    [history EXCEPT !.pc = "done", !.rels = rels,
                                    !.out = getReleaseHistory(rels), !.err = "nil"]
    /\ UNCHANGED <<coreVars, bind, chart>>

NextHistory == getHistory

SpecHistory == InitHistory /\ [][NextHistory]_vars


\* ---------------------------------------------------------------- claims
AllThreads == DOMAIN pc
LoadersOwnedBy(f) == {i \in 1..Len(loaders) : loaders[i].owner = f}
KnownDrivers == {"", "secret", "secrets", "configmap", "configmaps", "memory"}
Returned(t) == pc[t] = "ret" /\ call[t].op = "NewActionConfig" /\ call[t].result.returned

\* C1: whatever the interleaving of the callers of ToRawKubeConfigLoader on a
\* ConfigFlags with usePersistentConfig = true, toRawKubeConfigLoader runs at
\* most once on it, and every caller receives the loader that run built.
C1_PersistentLoaderBuiltOnce ==
    \A f \in 1..Len(flags) :
        flags[f].usePersistentConfig =>
            /\ Cardinality(LoadersOwnedBy(f)) <= 1
            /\ \A i \in 1..Len(rets[f]) : rets[f][i] \in LoadersOwnedBy(f)
            /\ \A t \in AllThreads :
                  (pc[t] = "ret" /\ call[t].f = f) => LoadersOwnedBy(f) = {call[t].loader}

\* two callers whose first calls overlapped have both returned
C1_Witness ==
    \E t1, t2 \in AllThreads :
        /\ t1 # t2
        /\ started = 2
        /\ pc[t1] = "ret" /\ pc[t2] = "ret"
        /\ call[t1].f = 1 /\ call[t2].f = 1
        /\ flags[1].usePersistentConfig
        /\ call[t1].loader = call[t2].loader

\* C10: on a persistent ConfigFlags every call after the first returns the loader
\* the first call cached and builds none; on a non-persistent one every call
\* returns a loader of its own and clientConfig stays nil.
C10_CachedOrFresh ==
    \A f \in 1..Len(flags) :
        IF flags[f].usePersistentConfig
           THEN /\ \A i \in 1..Len(rets[f]) :
                      rets[f][i] = rets[f][1] /\ rets[f][i] = flags[f].clientConfig
                /\ Len(rets[f]) >= 1 => Cardinality(LoadersOwnedBy(f)) = 1
           ELSE /\ flags[f].clientConfig = 0
                /\ \A i, j \in 1..Len(rets[f]) : i # j => rets[f][i] # rets[f][j]
                /\ Cardinality(LoadersOwnedBy(f)) = Len(rets[f])

\* both objects have answered at least two calls
C10_Witness ==
    /\ flags[1].usePersistentConfig /\ Len(rets[1]) >= 2
    /\ ~flags[2].usePersistentConfig /\ Len(rets[2]) >= 2

\* C2: the function handed to configOnce.Do runs at most once; once it has run
\* the guard stays initialized, config stays the object that run created, with
\* the credentialContent of the winning call, and every kubeConfig call
\* returns that object.
C2_ConfigInitializedOnce ==
    /\ inits <= 1
    /\ (inits = 1) <=> (once = "initialized")
    /\ once = "initialized" =>
          /\ config \in 1..Len(flags)
          /\ flags[config].CredentialContent = winner
    /\ once # "initialized" => config = 0 /\ kcRets = {}
    /\ kcRets \subseteq {config}
    /\ \A t \in AllThreads : call[t].getter # 0 => call[t].getter = config

\* a call that passed other credentials than the winner got the winner's getter,
\* after a getNamespace or NewActionConfig call went through the guard as well
C2_Witness ==
    \E t \in AllThreads :
        /\ pc[t] = "ret"
        /\ call[t].op \in {"getNamespace", "NewActionConfig"}
        /\ call[t].cred # winner
        /\ call[t].getter = config
        /\ flags[config].CredentialContent = winner
        /\ started = 2

\* C3: a call that read an unrecognized HELM_DRIVER panics: the process is
\* gone, the call built no store and returned nothing, and no configuration
\* was ever returned for such a value.
C3_UnknownDriverPanics ==
    /\ \A t \in AllThreads :
          (call[t].drv # NoDrv /\ call[t].drv \notin KnownDrivers) =>
              /\ proc = "panic"
              /\ pc[t] = "nac_driver"
              /\ call[t].store = NoStore
              /\ ~call[t].result.returned
    /\ \A c \in configs : c.drv \in KnownDrivers

C3_Witness ==
    \E t \in AllThreads : call[t].drv = "bogus" /\ proc = "panic"

\* C4: a call whose client set failed has exited the process at once: it asked
\* for no namespace, read no HELM_DRIVER, built no store and returned nothing.
C4_ClientSetFailureIsFatal ==
    \A t \in AllThreads :
        call[t].csErr \notin {NoErr, "nil"} =>
            /\ proc = "fatal"
            /\ pc[t] = "nac_restconfig"
            /\ call[t].lerr = NoErr /\ call[t].ns = NoNs
            /\ call[t].drv = NoDrv /\ call[t].store = NoStore
            /\ ~call[t].result.returned

\* the client set fails for a call with allNamespaces = false while HELM_DRIVER
\* holds an unrecognized value
C4_Witness ==
    \E t \in AllThreads :
        /\ call[t].csErr = "errB"
        /\ ~call[t].allNs
        /\ env = "bogus"
        /\ proc = "fatal"

\* C5: getNamespace answers the loader's namespace when the loader reports no
\* error and "default" when it reports one, whichever error it is.
C5_NamespaceOrDefault ==
    \A t \in AllThreads :
        call[t].lerr # NoErr =>
            /\ call[t].lerr = "nil" => call[t].ns = call[t].lns
            /\ call[t].lerr # "nil" => call[t].ns = "default"

C5_Witness ==
    \E t \in AllThreads :
        /\ pc[t] = "ret" /\ call[t].op = "getNamespace"
        /\ call[t].lerr = "errB" /\ call[t].lns = "prod"
        /\ call[t].ns = "default"

\* C6: a configuration returned for allNamespaces = true has its Secrets or
\* ConfigMaps driver scoped to the empty namespace.
C6_AllNamespacesEmptyScope ==
    \A t \in AllThreads :
        (Returned(t) /\ call[t].allNs /\ call[t].result.Releases.scoped) =>
            call[t].result.Releases.ns = ""

C6_Witness ==
    \E t \in AllThreads :
        /\ Returned(t) /\ call[t].allNs
        /\ call[t].result.Releases.kind = "configmaps"
        /\ call[t].result.Releases.ns = ""

\* C7: a returned configuration uses the Secrets driver for HELM_DRIVER "",
\* "secret", "secrets" and the ConfigMaps driver for "configmap", "configmaps",
\* scoped to "" with allNamespaces and to the answer of getNamespace without.
C7_SecretsAndConfigMaps ==
    \A t \in AllThreads :
        Returned(t) =>
            LET working == IF call[t].allNs THEN ""
                           ELSE IF call[t].lerr = "nil" THEN call[t].lns ELSE "default"
            IN  /\ call[t].drv \in {"", "secret", "secrets"} =>
                      call[t].result.Releases = [kind |-> "secrets", scoped |-> TRUE, ns |-> working]
                /\ call[t].drv \in {"configmap", "configmaps"} =>
                      call[t].result.Releases = [kind |-> "configmaps", scoped |-> TRUE, ns |-> working]

C7_Witness ==
    \E t \in AllThreads :
        /\ Returned(t) /\ ~call[t].allNs
        /\ call[t].drv = "configmap"
        /\ call[t].lerr = "nil" /\ call[t].lns = "prod"
        /\ call[t].result.Releases = [kind |-> "configmaps", scoped |-> TRUE, ns |-> "prod"]

\* C8: a configuration returned for HELM_DRIVER "memory" uses the in-memory
\* driver, which is handed no namespace: it is the same store whatever
\* allNamespaces and the resolved namespace are.
C8_MemoryDriverUnscoped ==
    \A t \in AllThreads :
        (Returned(t) /\ call[t].drv = "memory") =>
            call[t].result.Releases = [kind |-> "memory", scoped |-> FALSE, ns |-> NoNs]

C8_Witness ==
    \E t \in AllThreads :
        /\ Returned(t) /\ call[t].drv = "memory"
        /\ ~call[t].allNs /\ call[t].ns = "prod"
        /\ call[t].result.Releases.kind = "memory"

\* C9 as stated: all configurations returned in one process use the same driver
\* kind, and none was returned for an unrecognized value.
C9_OneDriverKindPerProcess ==
    /\ Cardinality({c.kind : c \in configs}) <= 1
    /\ \A c \in configs : c.drv \in KnownDrivers

\* C9 as amended: every returned configuration uses the one driver kind that
\* the HELM_DRIVER value read by its own call selects, so calls that read the
\* same value use the same kind, and none was returned for an unrecognized value.
C9_DriverKindPerCall ==
    /\ \A c \in configs :
          /\ c.drv \in KnownDrivers
          /\ c.kind = IF c.drv \in {"", "secret", "secrets"} THEN "secrets"
                      ELSE IF c.drv \in {"configmap", "configmaps"} THEN "configmaps"
                      ELSE "memory"
    /\ \A c1, c2 \in configs : c1.drv = c2.drv => c1.kind = c2.kind

\* HELM_DRIVER changed between two calls that both returned
C9_Witness ==
    \E c1, c2 \in configs : c1.kind = "secrets" /\ c2.kind = "memory"


FlagNameOf ==
    [ KubeConfig |-> "kubeconfig", CacheDir |-> "cache-dir",
      CertFile |-> "client-certificate", KeyFile |-> "client-key",
      BearerToken |-> "token", Impersonate |-> "as",
      ImpersonateGroup |-> "as-group", Username |-> "username",
      Password |-> "password", ClusterName |-> "cluster",
      AuthInfoName |-> "user", Namespace |-> "namespace", Context |-> "context",
      APIServer |-> "server", Insecure |-> "insecure-skip-tls-verify",
      CAFile |-> "certificate-authority", Timeout |-> "request-timeout" ]

\* C12: AddFlags registers one flag per non-nil optional field, under the
\* field's fixed name and with the field's value as default, and no flag for a
\* nil field (no flag at all when every field is nil).
C12_OneFlagPerNonNilField ==
    bind.bound =>
        LET o == flags[bind.obj]
            set == {k \in OptionalFields : o[k] # NilPtr}
            reg == bind.flagset
        IN  /\ Len(reg) = Cardinality(set)
            /\ {reg[i].name : i \in 1..Len(reg)} = {FlagNameOf[k] : k \in set}
            /\ \A k \in set :
                  \E i \in 1..Len(reg) :
                      /\ reg[i].name = FlagNameOf[k]
                      /\ reg[i].def = FormatDefault(k, o[k][1])

\* flags bound on a ConfigFlags with an assigned namespace and nil fields
C12_Witness ==
    /\ bind.bound
    /\ flags[bind.obj].Namespace = Ptr("x")
    /\ flags[bind.obj].Username = NilPtr
    /\ flags[bind.obj].Timeout = NilPtr
    /\ \E i \in 1..Len(bind.flagset) :
          bind.flagset[i].name = "namespace" /\ bind.flagset[i].def = "x"
    /\ \A i \in 1..Len(bind.flagset) : bind.flagset[i].name # "request-timeout"

\* what C13 says of the fields other than Username and Password
DefaultsButBasicAuth(v) ==
    /\ v.Insecure = Ptr(FALSE)
    /\ v.Timeout = Ptr("0")
    /\ v.CacheDir = Ptr(defaultCacheDir)
    /\ v.ImpersonateGroup = Ptr(<< >>)
    /\ \A k \in OptionalFields \ {"Insecure", "Timeout", "CacheDir", "ImpersonateGroup",
                                  "Username", "Password"} :
          v[k] = Ptr("")

\* C13 as stated: NewConfigFlags returns Insecure=false, Timeout="0", the
\* default CacheDir and every other optional field, Username and Password
\* included, non-nil and empty.
C13_AllFieldsNonNil ==
    bind.made.called =>
        /\ DefaultsButBasicAuth(bind.made.value)
        /\ bind.made.value.Username = Ptr("")
        /\ bind.made.value.Password = Ptr("")

\* C13 as amended: the same, but Username and Password are nil.
C13_DefaultsWithoutBasicAuth ==
    bind.made.called =>
        /\ DefaultsButBasicAuth(bind.made.value)
        /\ bind.made.value.Username = NilPtr
        /\ bind.made.value.Password = NilPtr
        /\ bind.made.value.usePersistentConfig = bind.made.usePersistentConfig
        /\ bind.made.value.CredentialContent = bind.made.credentialContent

C13_Witness ==
    /\ bind.made.called
    /\ bind.made.usePersistentConfig
    /\ bind.made.credentialContent = "credB"
    /\ flags[bind.obj] = bind.made.value

\* C14: a ToDiscoveryClient that reports no error hands out a discovery client
\* that is not nil, and ToRESTMapper builds its mapper over such a client.
C14_DiscoveryClientUsable ==
    /\ (bind.discovery.called /\ bind.discovery.err = "nil") => bind.discovery.client # 0
    /\ (bind.mapper.called /\ bind.mapper.built) => bind.mapper.discovery # 0

\* C17: the getter behind kubeConfig is not persistent and caches no loader:
\* every ToRawKubeConfigLoader call on it returned a loader of its own.
C17_ConfigNeverPersistent ==
    config # 0 =>
        /\ ~flags[config].usePersistentConfig
        /\ flags[config].clientConfig = 0
        /\ \A i, j \in 1..Len(rets[config]) : i # j => rets[config][i] # rets[config][j]
        /\ Cardinality(LoadersOwnedBy(config)) = Len(rets[config])
        /\ \A t \in AllThreads : pc[t] \notin {"p_lock", "p_check", "p_build", "p_return"}

\* a NewActionConfig call returned after its client set and its getNamespace
\* each asked the getter for a loader
C17_Witness ==
    \E t \in AllThreads :
        /\ Returned(t) /\ ~call[t].allNs
        /\ started = 1
        /\ Len(rets[config]) = 2
        /\ rets[config][1] # rets[config][2]

InCritical(t) == pc[t] \in {"p_check", "p_build", "p_return"}
InPersistentLoader(t) == pc[t] = "p_lock" \/ InCritical(t)

\* C18: under a fair scheduler every caller inside
\* toRawKubePersistentConfigLoader returns; the lock is held by a caller that
\* is between Lock and the deferred Unlock and by nobody else, and two callers
\* are never between them on the same ConfigFlags.
C18_EveryCallerReturns ==
    /\ [](\A t1, t2 \in Callers :
            (InCritical(t1) /\ InCritical(t2) /\ call[t1].f = call[t2].f) => t1 = t2)
    /\ [](\A f \in 1..Len(flags) :
            flags[f].lock # 0 => (InCritical(flags[f].lock) /\ call[flags[f].lock].f = f))
    /\ \A t \in Callers : InPersistentLoader(t) ~> (pc[t] = "ret")

\* a caller waits for the lock another caller holds
C18_Witness ==
    \E t1, t2 \in Callers :
        /\ t1 # t2
        /\ pc[t1] = "p_lock"
        /\ flags[call[t1].f].lock = t2
        /\ InCritical(t2)


\* C15: a Create that returns an error has removed what it wrote: none of the
\* files written by that call is left under the chart directory.
C15_FailedCreateCleansUp ==
    (chart.pc = "done" /\ chart.err # "nil") => chart.written \cap chart.fs = {}

\* the number of revisions Max allows
MaxAllowed == IF history.max > 0 THEN history.max ELSE 0

\* C16: getHistory outputs at most Max revisions (none for a Max below one,
\* at most DefaultMax when --max is not given), and they are the
\* highest-numbered revisions of the history, each once.
C16_AtMostMaxNewest ==
    history.pc = "done" =>
        /\ Len(history.out) <= MaxAllowed
        /\ Range(history.out) \subseteq Range(history.hist)
        /\ Cardinality(Range(history.out)) = Len(history.out)
        /\ \A r \in Range(history.out) :
              \A h \in Range(history.hist) \ Range(history.out) : h < r
        /\ \A a, b \in 1..Len(history.out) : a < b => history.out[a] < history.out[b]
        /\ (history.err = "nil" /\ history.runErr = "nil" /\ history.format \in OutputFormats)
              => Len(history.out) = min(Len(history.hist), MaxAllowed)

\* a history of more revisions than Max, out of order, cut down to Max
C16_Witness ==
    /\ history.pc = "done"
    /\ history.max = 2
    /\ history.hist = <<2, 4, 1>>
    /\ history.out = <<2, 4>>

====
